---- MODULE Spec2Model ----
(***************************************************************************)
(* SpinnerMouse firmware (src/RotaryController.ino, the SpinnerMouse       *)
(* sketch that starts at line 270): the boot sequence, the main loop with  *)
(* its serial command interpreter, button remapper, event emitter and      *)
(* motion scaler, and the encoder interrupt handler that shares the        *)
(* accumulator with the main loop.                                         *)
(*                                                                         *)
(* Pin levels are 0 (LOW) and 1 (HIGH) as digitalRead returns them.  The   *)
(* main loop is cut exactly at its accesses to the shared accumulator      *)
(* (spinner.read at line 635, spinner.write(0) at line 650), the only      *)
(* places where an interleaved interrupt is observable.                    *)
(***************************************************************************)
EXTENDS Integers, Sequences, FiniteSets, TLC

VARIABLES
    pc,                    \* position of the main program: boot, wait, loop, read, reset;
                           \* hold, start, check, body in the timed setup(); blink_call,
                           \* blink_loop, blink_done in blink_led_ms; delay at line 653
    speed_percent_default, \* line 352
    speed_percent,         \* line 353
    buttons_swapped,       \* line 453 (static)
    button_ext_nc,         \* line 450 (static)
    prev_jack_present,     \* line 435 (static, 255 = 0xFF before the first tick)
    prev_events_enabled,   \* line 436
    prev_axis,             \* line 437
    prev_speed,            \* line 438
    prev_buttons_pressed,  \* line 439
    mouse_buttons,         \* Mouse._buttons: the set of host buttons held pressed
    position,              \* the Encoder accumulator (spinner)
    led,                   \* level of PIN_LED_1
    jack_present,          \* line 441 (value sampled on the current tick)
    events_enabled,        \* line 442
    axis,                  \* line 443
    speed,                 \* line 444
    buttons_pressed,       \* line 447
    spinner_value,         \* line 635
    serial_in,             \* the byte read on the current tick, -1 when none was available
    serial_out,            \* the lines printed in answer to the command of the current tick
    blinks,                \* calls of blink_led_ms on the current tick
    pin_button_1,          \* levels read at lines 575-589 on the current tick
    pin_button_2,
    pin_button_ext,
    pin_ext_detect,        \* level read at line 521 on the current tick
    pin_pot,               \* reading of the speed dial at line 444 on the current tick
    hid,                   \* host calls of the current tick, in order
    boot_pct,              \* speed_percent at the end of the boot sampling (history)
    old,                   \* the state the current tick started from (history)
    run,                   \* the last s or n command and the number of '+' commands after it, c aside (history)
    pulses,                \* net signed pulses since the accumulator was last zeroed outside a motion event (history)
    consumed,              \* sum of the raw values consumed by motion events since then (history)
    n_isr,                 \* interrupts since then (history, bounds the model)
    enc,                   \* motion events since then (0, 1, 2 for more), whether an interrupt
                           \* came since the read of line 635, value thrown away by the last
                           \* reset of line 539 (history)
    millis,                \* the millisecond clock read by millis(), a uint32_t
    button_1,              \* level of the PIN_BUTTON_1 line during setup()
    boot,                  \* setup(): the samples of lines 398 and 400, start_ms (409), loop_ts (410), the last level read at line 412
    blink,                 \* blink_led_ms: its arguments, stop_ms (371), now (372) and the on/off cycles made
    pace                   \* loop(): loop_start_ms (432), the clock read at line 653 and the delay asked there

vars == <<pc, speed_percent_default, speed_percent, buttons_swapped, button_ext_nc,
          prev_jack_present, prev_events_enabled, prev_axis, prev_speed,
          prev_buttons_pressed, mouse_buttons, position, led, jack_present,
          events_enabled, axis, speed, buttons_pressed, spinner_value, serial_in,
          serial_out, blinks, pin_button_1, pin_button_2, pin_button_ext,
          pin_ext_detect, pin_pot, hid, boot_pct, old, run, pulses, consumed, n_isr, enc,
          millis, button_1, boot, blink, pace>>

----------------------------------------------------------------------------
(* Program constants *)

SLOW_PCT == 20
PCT_ADJUST == 5
AXIS_X == 0
AXIS_Y == 1
MAX_SPEED == 50
LED_INTENSITY == 32
SLOW_TRIGGER_MS == 2000
BOOT_DELAY_MS == 2000
LED_BLINK_MS == 50
LED_FEEDBACK_MS == 250
EVENT_INTERVAL_MS == 4
PEDAL_JACK_AVAILABLE == TRUE
MOUSE_ALL == {0, 1, 2}
UNSET == 255

(* Bounds of the model *)

MaxPulses == 2
MaxAdjust == 1
MaxRaw == 3
MaxPlusRun == 32
MaxBootMs == 6000
ClockStep == 500
MaxCycles == 16
MaxElapsed == 8

----------------------------------------------------------------------------
(* Character codes of the serial commands *)

CH_s == 115
CH_n == 110
CH_r == 114
CH_c == 99
CH_w == 119
CH_plus == 43
CH_minus == 45

----------------------------------------------------------------------------
(* Helpers of the Arduino core used by the sketch *)

\* constrain(x, lo, hi) of Arduino.h, on int
Constrain(x, lo, hi) ==
    IF x < lo THEN lo ELSE IF x > hi THEN hi ELSE x

\* map(analogRead(PIN_POT_1), 0, 1023, 1, MAX_SPEED): long arithmetic, truncating division
MapPot(raw) ==
    ((raw - 0) * (MAX_SPEED - 1)) \div (1023 - 0) + 1

\* !x of C on an integer level
Not(x) ==
    IF x = 0 THEN 1 ELSE 0

\* Serial.read() | 0x20 stored in a (signed) char
LowerCase(byte) ==
    LET ored == IF (byte \div 32) % 2 = 1 THEN byte ELSE byte + 32
    IN  IF ored >= 128 THEN ored - 256 ELSE ored

\* A uint32_t (millis(), start_ms, loop_ts, loop_start_ms) is held as the
\* two's complement integer with the same 32 bits, which is also the value
\* its conversion to int32_t yields (stop_ms and now, lines 371-372).

\* u + d in a uint32_t, for 0 <= d < 2^31
U32Add(u, d) ==
    IF u > 2147483647 - d
    THEN (u - 2147483647 - 1) + (d - 2147483647 - 1)
    ELSE u + d

\* a - b in a uint32_t
U32Sub(a, b) ==
    IF (a < 0) = (b < 0) THEN a - b
    ELSE IF a >= 0
         THEN (IF a > 2147483647 + b
               THEN (a - 2147483647 - 1) - (b + 2147483647 + 1)
               ELSE a - b)
         ELSE (IF a < b - 2147483647 - 1
               THEN (((a + 2147483647) + 1) - b) + 2147483647 + 1
               ELSE a - b)

\* a < b on uint32_t
U32Less(a, b) ==
    IF (a < 0) = (b < 0) THEN a < b ELSE b < 0

----------------------------------------------------------------------------
(* Motion scaler, lines 356-367 and 638.                                   *)
(* speed * speed_percent is an int, / 100.0 makes the rest of the          *)
(* expression floating point; on the ATmega32U4 double is IEEE-754         *)
(* binary32.  A float is held as mantissa m (at most 24 bits) and exponent *)
(* e, its value being m * 2^(e-23).                                        *)

RECURSIVE Pow2(_)
Pow2(n) ==
    IF n = 0 THEN 1 ELSE 2 * Pow2(n - 1)

RECURSIVE BitLen(_)
BitLen(n) ==
    IF n = 0 THEN 0 ELSE 1 + BitLen(n \div 2)

\* n / d rounded to the nearest integer, ties to even
RoundHalfEven(n, d) ==
    LET q == n \div d
        r == n % d
    IN  IF 2 * r > d \/ (2 * r = d /\ q % 2 = 1) THEN q + 1 ELSE q

\* exponent of k / 100 for k >= 100
RECURSIVE Exp100(_)
Exp100(k) ==
    IF k < 200 THEN 0 ELSE 1 + Exp100(k \div 2)

\* (speed * speed_percent) / 100.0, rounded to binary32
F32Div100(k) ==
    LET e == Exp100(k)
    IN  [m |-> RoundHalfEven(k * Pow2(23 - e), 100), e |-> e]

\* Multiplier with the quotient truncated to an integer (integer division)
MultiplierTruncated(dial, pct) ==
    LET k == dial * pct
        n == IF k < 100 THEN 1 ELSE k \div 100
    IN  [m |-> n * Pow2(23), e |-> 0]

\* max(1, speed * speed_percent / 100.0): the macro ((a)>(b)?(a):(b))
Multiplier(dial, pct) ==
    LET k == dial * pct
    IN  IF k < 100 THEN [m |-> Pow2(23), e |-> 0] ELSE F32Div100(k)

\* |spinner_value| * multiplier rounded to binary32, then truncated by the
\* conversion to the int32_t parameter of constrain_byte.  A product of 130
\* or more is not rounded digit by digit: rounding cannot bring it below 128
\* and constrain_byte maps every such value to 127.
ScaledMagnitude(a, dial, pct) ==
    LET k  == dial * pct
        kk == IF k < 100 THEN 100 ELSE k
        f  == Multiplier(dial, pct)
    IN  IF a * kk >= 13000 THEN 128
        ELSE LET p  == a * f.m
                 bl == BitLen(p)
                 s  == IF bl <= 24 THEN 0 ELSE bl - 24
                 q  == RoundHalfEven(p, Pow2(s))
             IN  (q * Pow2(s)) \div Pow2(23 - f.e)

\* constrain_byte left to the conversion to int8_t
constrain_byte_wrapping(value) ==
    ((value + 128) % 256) - 128

constrain_byte(value) ==
    IF value < -127 THEN -127
    ELSE IF value > 127 THEN 127
    ELSE value

\* line 638
Delta(value, dial, pct) ==
    LET a == IF value < 0 THEN -value ELSE value
        t == ScaledMagnitude(a, dial, pct)
    IN  constrain_byte(IF value < 0 THEN -t ELSE t)

----------------------------------------------------------------------------
(* Serial command interpreter, lines 457-516 *)

Line(text, n) ==
    [text |-> text, n |-> n]

\* CurrentSettings reporting the percent of the predefined mode
CurrentSettingsPreset(sp, sw) ==
    << Line(IF sp = SLOW_PCT THEN "speed=slow(%)"
            ELSE IF sp = 100 THEN "speed=normal(%)"
            ELSE "speed=custom(%)", IF sp = SLOW_PCT THEN SLOW_PCT ELSE 100),
       Line(IF sw THEN "buttons=swapped" ELSE "buttons=normal", -1) >>

\* lines 485-500, shared by the commands r and c
CurrentSettings(sp, sw) ==
    << Line(IF sp = SLOW_PCT THEN "speed=slow(%)"
            ELSE IF sp = 100 THEN "speed=normal(%)"
            ELSE "speed=custom(%)", sp),
       Line(IF sw THEN "buttons=swapped" ELSE "buttons=normal", -1) >>

\* Adjust with the sum left to wrap in the uint8_t instead of being constrained
AdjustWrapping(cmd, sp) ==
    (sp + (IF cmd = CH_plus THEN 1 ELSE -1) * PCT_ADJUST) % 256

\* speed_percent + (serial_cmd == '+' ? 1 : -1) * PCT_ADJUST, constrained and
\* stored in the uint8_t
Adjust(cmd, sp) ==
    Constrain(sp + (IF cmd = CH_plus THEN 1 ELSE -1) * PCT_ADJUST, 1, 255) % 256

\* AdjustBlinks with a blink for every '+' and '-'
AdjustBlinksAlways(sp) ==
    1

\* lines 505-507: '+' and '-' call blink_led_ms only when they move
\* speed_percent away from a predefined mode
AdjustBlinks(sp) ==
    IF sp = SLOW_PCT \/ sp = 100 THEN 1 ELSE 0

\* SerialCommand with a blink for c too
SerialCommandCurrentBlinks(cmd, sp, spd, sw) ==
    IF cmd = CH_s THEN
        [sp |-> SLOW_PCT, sw |-> sw, blinks |-> 1, out |-> <<Line("speed=slow", -1)>>]
    ELSE IF cmd = CH_n THEN
        [sp |-> 100, sw |-> sw, blinks |-> 1, out |-> <<Line("speed=normal", -1)>>]
    ELSE IF cmd = CH_w THEN
        [sp |-> sp, sw |-> ~sw, blinks |-> 1,
         out |-> <<Line(IF ~sw THEN "buttons=swapped" ELSE "buttons=normal", -1)>>]
    ELSE IF cmd = CH_r THEN
        [sp |-> spd, sw |-> FALSE, blinks |-> 1, out |-> CurrentSettings(spd, FALSE)]
    ELSE IF cmd = CH_c THEN
        [sp |-> sp, sw |-> sw, blinks |-> 1, out |-> CurrentSettings(sp, sw)]
    ELSE IF cmd = CH_plus \/ cmd = CH_minus THEN
        [sp |-> Adjust(cmd, sp), sw |-> sw,
         blinks |-> AdjustBlinks(sp),
         out |-> <<Line(IF cmd = CH_plus THEN "+" ELSE "-", -1)>>]
    ELSE
        [sp |-> sp, sw |-> sw, blinks |-> 0, out |-> <<Line("?", -1)>>]

\* SerialCommand with r going back to normal speed instead of the boot default
SerialCommandRestoreNormal(cmd, sp, spd, sw) ==
    IF cmd = CH_s THEN
        [sp |-> SLOW_PCT, sw |-> sw, blinks |-> 1, out |-> <<Line("speed=slow", -1)>>]
    ELSE IF cmd = CH_n THEN
        [sp |-> 100, sw |-> sw, blinks |-> 1, out |-> <<Line("speed=normal", -1)>>]
    ELSE IF cmd = CH_w THEN
        [sp |-> sp, sw |-> ~sw, blinks |-> 1,
         out |-> <<Line(IF ~sw THEN "buttons=swapped" ELSE "buttons=normal", -1)>>]
    ELSE IF cmd = CH_r THEN
        [sp |-> 100, sw |-> FALSE, blinks |-> 1, out |-> CurrentSettings(100, FALSE)]
    ELSE IF cmd = CH_c THEN
        [sp |-> sp, sw |-> sw, blinks |-> 0, out |-> CurrentSettings(sp, sw)]
    ELSE IF cmd = CH_plus \/ cmd = CH_minus THEN
        [sp |-> Adjust(cmd, sp), sw |-> sw,
         blinks |-> AdjustBlinks(sp),
         out |-> <<Line(IF cmd = CH_plus THEN "+" ELSE "-", -1)>>]
    ELSE
        [sp |-> sp, sw |-> sw, blinks |-> 0, out |-> <<Line("?", -1)>>]

\* the switch of line 460: the new speed_percent and buttons_swapped, the
\* number of calls of blink_led_ms and the lines printed
SerialCommand(cmd, sp, spd, sw) ==
    IF cmd = CH_s THEN
        [sp |-> SLOW_PCT, sw |-> sw, blinks |-> 1, out |-> <<Line("speed=slow", -1)>>]
    ELSE IF cmd = CH_n THEN
        [sp |-> 100, sw |-> sw, blinks |-> 1, out |-> <<Line("speed=normal", -1)>>]
    ELSE IF cmd = CH_w THEN
        [sp |-> sp, sw |-> ~sw, blinks |-> 1,
         out |-> <<Line(IF ~sw THEN "buttons=swapped" ELSE "buttons=normal", -1)>>]
    ELSE IF cmd = CH_r THEN
        [sp |-> spd, sw |-> FALSE, blinks |-> 1, out |-> CurrentSettings(spd, FALSE)]
    ELSE IF cmd = CH_c THEN
        [sp |-> sp, sw |-> sw, blinks |-> 0, out |-> CurrentSettings(sp, sw)]
    ELSE IF cmd = CH_plus \/ cmd = CH_minus THEN
        [sp |-> Adjust(cmd, sp), sw |-> sw,
         blinks |-> AdjustBlinks(sp),
         out |-> <<Line(IF cmd = CH_plus THEN "+" ELSE "-", -1)>>]
    ELSE
        [sp |-> sp, sw |-> sw, blinks |-> 0, out |-> <<Line("?", -1)>>]

\* SerialStep going back to the boot default on a tick without a byte
SerialStepIdleRestores(byte, sp, spd, sw) ==
    IF byte = -1
    THEN [sp |-> spd, sw |-> FALSE, blinks |-> 0, out |-> << >>]
    ELSE SerialCommand(LowerCase(byte), sp, spd, sw)

\* lines 457-516: nothing happens when no byte is available (byte = -1)
SerialStep(byte, sp, spd, sw) ==
    IF byte = -1
    THEN [sp |-> sp, sw |-> sw, blinks |-> 0, out |-> << >>]
    ELSE SerialCommand(LowerCase(byte), sp, spd, sw)

----------------------------------------------------------------------------
(* Button remapper, lines 572-593.  b1, b2 and ext are the pin levels.     *)

\* ButtonExt reading every pedal as normally open
ButtonExtActiveLow(nc, ext) ==
    Not(ext)

\* lines 576 and 578: button_ext_nc ? digitalRead(PIN_BUTTON_EXT) : !digitalRead(PIN_BUTTON_EXT)
ButtonExt(nc, ext) ==
    IF nc THEN ext ELSE Not(ext)

\* ButtonMap with the swap forgotten while a pedal is connected
ButtonMapNoSwapWithJack(jack, sw, nc, b1, b2, ext) ==
    IF jack # 0 THEN
        <<ButtonExt(nc, ext), Not(b1), Not(b2)>>
    ELSE
        IF sw THEN <<Not(b2), Not(b1), 0>>
        ELSE <<Not(b1), Not(b2), 0>>

ButtonMap(jack, sw, nc, b1, b2, ext) ==
    IF jack # 0 THEN
        IF sw THEN <<Not(b1), ButtonExt(nc, ext), Not(b2)>>
        ELSE <<ButtonExt(nc, ext), Not(b1), Not(b2)>>
    ELSE
        IF sw THEN <<Not(b2), Not(b1), 0>>
        ELSE <<Not(b1), Not(b2), 0>>

----------------------------------------------------------------------------
(* Host interface (Mouse) and the event emitter, lines 611-629 *)

Ev(op, b, x, y) ==
    [op |-> op, b |-> b, x |-> x, y |-> y, w |-> 0]

ReleaseAll ==
    Ev("release_all", -1, 0, 0)

\* AfterJackChange without the release
AfterJackChangeNoRelease(changed, st) ==
    st

\* lines 519-520: Mouse.release(MOUSE_ALL) when the jack was inserted or removed
AfterJackChange(changed, st) ==
    IF changed
    THEN [mb |-> st.mb \ MOUSE_ALL, hid |-> Append(st.hid, ReleaseAll)]
    ELSE st

\* AfterEventsChange without the release
AfterEventsChangeNoRelease(changed, en, st) ==
    st

\* lines 537-542: Mouse.release(MOUSE_ALL) when the events were switched off
AfterEventsChange(changed, en, st) ==
    IF changed /\ en = 0
    THEN [mb |-> st.mb \ MOUSE_ALL, hid |-> Append(st.hid, ReleaseAll)]
    ELSE st

\* ButtonEvents sending the level of each button instead of its changes
RECURSIVE ButtonEventsLevel(_, _, _)
ButtonEventsLevel(i, pressed, st) ==
    IF i = 3 THEN st
    ELSE IF pressed[i + 1] # 0 THEN
        ButtonEventsLevel(i + 1, pressed,
                          [mb |-> st.mb \cup {i}, hid |-> Append(st.hid, Ev("press", i, 0, 0))])
    ELSE IF i \in st.mb THEN
        ButtonEventsLevel(i + 1, pressed,
                          [mb |-> st.mb \ {i}, hid |-> Append(st.hid, Ev("release", i, 0, 0))])
    ELSE ButtonEventsLevel(i + 1, pressed, st)

\* ButtonEvents without the releases of lines 620-627
RECURSIVE ButtonEventsPressOnly(_, _, _)
ButtonEventsPressOnly(i, pressed, st) ==
    IF i = 3 THEN st
    ELSE IF pressed[i + 1] # 0 /\ i \notin st.mb THEN
        ButtonEventsPressOnly(i + 1, pressed,
                              [mb |-> st.mb \cup {i}, hid |-> Append(st.hid, Ev("press", i, 0, 0))])
    ELSE ButtonEventsPressOnly(i + 1, pressed, st)

\* one pass of the loop body of line 611 for button i (index i+1 of pressed)
RECURSIVE ButtonEvents(_, _, _)
ButtonEvents(i, pressed, st) ==
    IF i = 3 THEN st
    ELSE IF pressed[i + 1] # 0 /\ i \notin st.mb THEN
        ButtonEvents(i + 1, pressed,
                     [mb |-> st.mb \cup {i}, hid |-> Append(st.hid, Ev("press", i, 0, 0))])
    ELSE IF pressed[i + 1] = 0 /\ i \in st.mb THEN
        ButtonEvents(i + 1, pressed,
                     [mb |-> st.mb \ {i}, hid |-> Append(st.hid, Ev("release", i, 0, 0))])
    ELSE ButtonEvents(i + 1, pressed, st)

----------------------------------------------------------------------------
(* Inputs of the model *)

Levels == {0, 1}

\* readings of the speed potentiometer (analogRead is 0..1023)
PotReadings == {0, 1023}

\* the bytes that act as commands: s n r c w + - and their other spellings
\* S N R C W, vertical tab and carriage return
CommandBytes == {115, 110, 114, 99, 119, 43, 45, 83, 78, 82, 67, 87, 11, 13}

\* the bytes that reach the case of '+' and '-'
AdjustBytes == {43, 45, 11, 13}

AllBytes == 0 .. 255

----------------------------------------------------------------------------
(* State after the global constructors, before setup() *)

\* no s or n command so far, or another command than '+' and c since
NoRun ==
    [base |-> "none", plus |-> 0]

\* no motion event, no interrupt and no reset yet
EncIdle ==
    [moves |-> 0, late |-> 0, stale |-> 0]

\* a level that was not read
NotRead ==
    -1

\* the variables of setup(), blink_led_ms and the pacing of loop() before they run
BootIdle ==
    [first |-> NotRead, second |-> NotRead, start_ms |-> 0, loop_ts |-> 0, read |-> NotRead]

BlinkIdle ==
    [ms |-> 0, leave_on |-> FALSE, stop_ms |-> 0, now |-> 0, cycles |-> 0]

PaceIdle ==
    [loop_start_ms |-> 0, end_ms |-> 0, sleep_ms |-> 0]

Init ==
    /\ pc = "boot"
    /\ speed_percent_default = 100
    /\ speed_percent = 100
    /\ buttons_swapped = FALSE
    /\ button_ext_nc = FALSE
    /\ prev_jack_present = UNSET
    /\ prev_events_enabled = UNSET
    /\ prev_axis = UNSET
    /\ prev_speed = UNSET
    /\ prev_buttons_pressed = <<UNSET, UNSET, UNSET>>
    /\ mouse_buttons = {}
    /\ position = 0
    /\ led = 0
    /\ jack_present = 0
    /\ events_enabled = 0
    /\ axis = 0
    /\ speed = 1
    /\ buttons_pressed = <<0, 0, 0>>
    /\ spinner_value = 0
    /\ serial_in = -1
    /\ serial_out = << >>
    /\ blinks = 0
    /\ pin_button_1 = 1
    /\ pin_button_2 = 1
    /\ pin_button_ext = 1
    /\ pin_ext_detect = 1
    /\ pin_pot = 0
    /\ hid = << >>
    /\ boot_pct = 100
    /\ old = [sp |-> 100, sw |-> FALSE, jack |-> UNSET, events |-> UNSET,
               pressed |-> <<UNSET, UNSET, UNSET>>, mb |-> {}]
    /\ run = NoRun
    /\ pulses = 0
    /\ consumed = 0
    /\ n_isr = 0
    /\ enc = EncIdle
    /\ millis = 0
    /\ button_1 = 1
    /\ boot = BootIdle
    /\ blink = BlinkIdle
    /\ pace = PaceIdle

configVars == <<speed_percent_default, speed_percent, buttons_swapped, button_ext_nc, boot_pct>>
prevVars == <<prev_jack_present, prev_events_enabled, prev_axis, prev_speed, prev_buttons_pressed>>
tickVars == <<jack_present, events_enabled, axis, speed, buttons_pressed, serial_in,
              serial_out, blinks, pin_button_1, pin_button_2, pin_button_ext, pin_ext_detect,
              pin_pot, old, run>>
encoderVars == <<position, pulses, consumed, n_isr, enc>>
timeVars == <<millis, button_1, boot, blink, pace>>

----------------------------------------------------------------------------
(* setup(), lines 385-428 *)

\* lines 398-403: the slow mode latch; first and second are the two levels
\* read from PIN_BUTTON_1 (the second one SLOW_TRIGGER_MS after the first)
SetupLatch ==
    /\ pc = "boot"
    /\ \E first \in Levels, second \in Levels :
          /\ speed_percent' = IF first = 0
                              THEN (IF second = 0 THEN SLOW_PCT ELSE 100)
                              ELSE speed_percent
          /\ speed_percent_default' = IF first = 0 THEN speed_percent' ELSE speed_percent_default
          /\ boot_pct' = speed_percent'
    /\ pc' = "wait"
    /\ UNCHANGED <<buttons_swapped, button_ext_nc, prevVars, tickVars, timeVars, encoderVars,
                   mouse_buttons, led, spinner_value, hid>>

\* lines 409-427: one evaluation of the condition of the boot wait; expired
\* says whether BOOT_DELAY_MS has gone by, b1 is the level of PIN_BUTTON_1.
\* The wait goes on (blinking in slow mode, which leaves the LED off) or
\* ends with Mouse.begin() and spinner.write(0).
SetupWait ==
    /\ pc = "wait"
    /\ \E expired \in BOOLEAN, b1 \in Levels :
          IF ~expired \/ b1 = 0
          THEN /\ led' = IF speed_percent < 100 THEN 0 ELSE led
               /\ UNCHANGED <<pc, mouse_buttons, encoderVars>>
          ELSE /\ pc' = "loop"
               /\ mouse_buttons' = {}
               /\ position' = 0
               /\ pulses' = 0
               /\ consumed' = 0
               /\ n_isr' = 0
               /\ enc' = EncIdle
               /\ UNCHANGED led
    /\ UNCHANGED <<configVars, prevVars, tickVars, timeVars, spinner_value, hid>>

----------------------------------------------------------------------------
(* setup() with the clock and the button line, lines 398-427.  The line of  *)
(* PIN_BUTTON_1 is moved by the user (ButtonChange) and the clock by time   *)
(* (ClockTick); the clock is followed up to MaxBootMs.                      *)

BootPcs ==
    {"boot", "hold", "start", "check", "body"}

\* the user presses or releases the primary button
ButtonChange ==
    /\ pc \in BootPcs
    /\ button_1' = Not(button_1)
    /\ UNCHANGED <<pc, configVars, prevVars, tickVars, encoderVars, mouse_buttons, led,
                   spinner_value, hid, millis, boot, blink, pace>>

\* time goes by while the wait of lines 412-421 spins
ClockTick ==
    /\ pc \in {"check", "body"}
    /\ millis < MaxBootMs
    /\ millis' = U32Add(millis, ClockStep)
    /\ UNCHANGED <<pc, configVars, prevVars, tickVars, encoderVars, mouse_buttons, led,
                   spinner_value, hid, button_1, boot, blink, pace>>

\* line 398: the first sample of the button
BootSample ==
    /\ pc = "boot"
    /\ boot' = [boot EXCEPT !.first = button_1]
    /\ pc' = IF button_1 = 0 THEN "hold" ELSE "start"
    /\ UNCHANGED <<configVars, prevVars, tickVars, encoderVars, mouse_buttons, led,
                   spinner_value, hid, millis, button_1, blink, pace>>

\* LatchPercent with the second sample ignored
LatchPercentFirstOnly(second) ==
    SLOW_PCT

\* line 400: !digitalRead(PIN_BUTTON_1) ? SLOW_PCT : 100
LatchPercent(second) ==
    IF Not(second) # 0 THEN SLOW_PCT ELSE 100

\* lines 399-402: delay(SLOW_TRIGGER_MS), the second sample and the latch
BootLatch ==
    /\ pc = "hold"
    /\ millis' = U32Add(millis, SLOW_TRIGGER_MS)
    /\ boot' = [boot EXCEPT !.second = button_1]
    /\ speed_percent' = LatchPercent(button_1)
    /\ speed_percent_default' = speed_percent'
    /\ boot_pct' = speed_percent'
    /\ pc' = "start"
    /\ UNCHANGED <<buttons_swapped, button_ext_nc, prevVars, tickVars, encoderVars,
                   mouse_buttons, led, spinner_value, hid, button_1, blink, pace>>

\* lines 409-410
BootWaitStart ==
    /\ pc = "start"
    /\ boot' = [boot EXCEPT !.start_ms = millis, !.loop_ts = millis]
    /\ pc' = "check"
    /\ UNCHANGED <<configVars, prevVars, tickVars, encoderVars, mouse_buttons, led,
                   spinner_value, hid, millis, button_1, blink, pace>>

\* the first operand of the condition of line 412
BootDelayRunning(loop_ts, start_ms) ==
    U32Less(loop_ts, U32Add(start_ms, BOOT_DELAY_MS))

\* WaitCondition with && in the place of ||
WaitConditionBoth(loop_ts, start_ms, level) ==
    BootDelayRunning(loop_ts, start_ms) /\ Not(level) # 0

\* line 412: loop_ts < start_ms + BOOT_DELAY_MS || !digitalRead(PIN_BUTTON_1)
WaitCondition(loop_ts, start_ms, level) ==
    BootDelayRunning(loop_ts, start_ms) \/ Not(level) # 0

\* line 412, then lines 423-427 when the wait is over: the button is read
\* only when the delay has run out (|| does not evaluate its second operand
\* otherwise)
BootCheck ==
    /\ pc = "check"
    /\ LET level == IF BootDelayRunning(boot.loop_ts, boot.start_ms) THEN boot.read ELSE button_1
       IN  /\ boot' = [boot EXCEPT !.read = level]
           /\ IF WaitCondition(boot.loop_ts, boot.start_ms, button_1)
              THEN /\ pc' = "body"
                   /\ UNCHANGED <<mouse_buttons, encoderVars, serial_out>>
              ELSE /\ pc' = "loop"
                   /\ mouse_buttons' = {}
                   /\ position' = 0
                   /\ pulses' = 0
                   /\ consumed' = 0
                   /\ n_isr' = 0
                   /\ enc' = EncIdle
                   /\ serial_out' = <<Line("ready", -1)>>
    /\ UNCHANGED <<configVars, prevVars, jack_present, events_enabled, axis, speed,
                   buttons_pressed, serial_in, blinks, pin_button_1, pin_button_2,
                   pin_button_ext, pin_ext_detect, pin_pot, old, run, led, spinner_value, hid,
                   millis, button_1, blink, pace>>

\* LoopTs with loop_ts left as it was
LoopTsStale(loop_ts, now) ==
    loop_ts

\* line 420: loop_ts = millis()
LoopTs(loop_ts, now) ==
    now

\* lines 413-420: in slow mode the LED blinks once, which takes two delays
\* of LED_BLINK_MS and leaves it off; then the clock is read
BootBody ==
    /\ pc = "body"
    /\ millis' = IF speed_percent < 100 /\ millis < MaxBootMs
                 THEN U32Add(millis, 2 * LED_BLINK_MS)
                 ELSE millis
    /\ led' = IF speed_percent < 100 THEN 0 ELSE led
    /\ boot' = [boot EXCEPT !.loop_ts = LoopTs(boot.loop_ts, millis')]
    /\ pc' = "check"
    /\ UNCHANGED <<configVars, prevVars, tickVars, encoderVars, mouse_buttons,
                   spinner_value, hid, button_1, blink, pace>>

----------------------------------------------------------------------------
(* loop(), lines 431-654 *)

\* the history of commands after the byte of a tick: s and n start a run,
\* '+' adds to it (up to MaxPlusRun), c and a tick without a byte leave it,
\* any other byte ends it
RunAfter(byte, r) ==
    LET cmd == LowerCase(byte)
    IN  IF byte = -1 \/ cmd = CH_c THEN r
        ELSE IF cmd = CH_s THEN [base |-> "s", plus |-> 0]
        ELSE IF cmd = CH_n THEN [base |-> "n", plus |-> 0]
        ELSE IF cmd = CH_plus /\ r.base # "none" /\ r.plus < MaxPlusRun
             THEN [r EXCEPT !.plus = @ + 1]
        ELSE NoRun

\* AccumulatorOnEnable without the reset
AccumulatorKeptOnEnable(en_changed, en, value) ==
    value

\* lines 537-539: spinner.write(0) on the tick where the events are switched on
AccumulatorOnEnable(en_changed, en, value) ==
    IF en_changed /\ en # 0 THEN 0 ELSE value

\* JackBlinks without the call of line 532
JackBlinksNone(jack_changed) ==
    0

\* line 532: blink_led_ms is called once on a tick where jack presence changed
JackBlinks(jack_changed) ==
    IF jack_changed THEN 1 ELSE 0

\* LedAfterTick with blink_led_ms leaving the LED off
LedAfterTickBlinkOff(nb, en_changed, en, level) ==
    IF en_changed THEN en * LED_INTENSITY
    ELSE IF nb > 0 THEN 0
    ELSE level

\* the LED after line 551: every blink_led_ms call of the tick ends with
\* analogWrite(PIN_LED_1, events_enabled * LED_INTENSITY) (line 381), and so
\* does the branch taken when events_enabled changed (line 545)
LedAfterTick(nb, en_changed, en, level) ==
    IF nb > 0 \/ en_changed THEN en * LED_INTENSITY ELSE level

\* PolarityLatch following the pedal line on every tick
PolarityFollowsLine(jack_changed, det, nc) ==
    det = 0

\* lines 519-521: button_ext_nc = !digitalRead(PIN_BUTTON_EXT) on a tick
\* where jack presence changed, and no assignment on any other tick
PolarityLatch(jack_changed, det, nc) ==
    IF jack_changed THEN Not(det) # 0 ELSE nc

\* lines 432-629: the tick up to the read of the accumulator.  The inputs
\* are the byte waiting on the serial port (-1: none) and the levels
\* of the pins at the places where the code reads them: jack (line 441),
\* dip1 (442), dip2 (443), pot (444), det (PIN_BUTTON_EXT at line 521) and
\* b1, b2, ext (lines 575-589).  A pin the code does not read on this tick is
\* recorded as 1.  The outcome of the command switch (cmd), the logical
\* buttons (pressed) and the host calls of the tick (st) are each computed
\* once.
LoopHeadOver(Bytes, Jacks, Dips1, Dips2, Pots, Dets, B1s, B2s, Exts) ==
    /\ pc = "loop"
    /\ \E byte \in Bytes \cup {-1}, jack \in Jacks, dip1 \in Dips1, dip2 \in Dips2,
          pot \in Pots, det \in Dets, b1 \in B1s, b2 \in B2s, ext \in Exts :
          LET jp   == IF PEDAL_JACK_AVAILABLE THEN jack ELSE 0
              en   == Not(dip1)
              jack_changed == jp # prev_jack_present
              en_changed   == en # prev_events_enabled
              nc   == PolarityLatch(jack_changed, det, button_ext_nc)
          IN  \E cmd \in {SerialStep(byte, speed_percent, speed_percent_default, buttons_swapped)} :
              \E pressed \in {ButtonMap(jp, cmd.sw, nc, b1, b2, ext)} :
              \E st \in {IF en = 0
                         THEN AfterEventsChange(en_changed, en,
                                  AfterJackChange(jack_changed, [mb |-> mouse_buttons, hid |-> << >>]))
                         ELSE ButtonEvents(0, pressed, AfterEventsChange(en_changed, en,
                                  AfterJackChange(jack_changed, [mb |-> mouse_buttons, hid |-> << >>])))} :
              LET nb == cmd.blinks + JackBlinks(jack_changed)
          IN  /\ jack_changed \/ det = 1
              /\ jp # 0 \/ ext = 1
              /\ serial_in' = byte
              /\ old' = [sp |-> speed_percent, sw |-> buttons_swapped,
                          jack |-> prev_jack_present, events |-> prev_events_enabled,
                          pressed |-> prev_buttons_pressed, mb |-> mouse_buttons]
              /\ run' = RunAfter(byte, run)
              /\ serial_out' = cmd.out
              /\ speed_percent' = cmd.sp
              /\ buttons_swapped' = cmd.sw
              /\ blinks' = nb
              /\ jack_present' = jp
              /\ events_enabled' = en
              /\ axis' = dip2
              /\ speed' = MapPot(pot)
              /\ button_ext_nc' = nc
              /\ prev_jack_present' = jp
              /\ prev_events_enabled' = en
              /\ prev_axis' = dip2
              /\ prev_speed' = MapPot(pot)
              /\ position' = AccumulatorOnEnable(en_changed, en, position)
              /\ IF en_changed /\ en # 0
                 THEN /\ pulses' = 0 /\ consumed' = 0 /\ n_isr' = 0
                      /\ enc' = [moves |-> 0, late |-> 0, stale |-> position]
                 ELSE UNCHANGED <<pulses, consumed, n_isr, enc>>
              /\ led' = LedAfterTick(nb, en_changed, en, led)
              /\ pin_ext_detect' = det
              /\ pin_pot' = pot
              /\ pin_button_1' = b1
              /\ pin_button_2' = b2
              /\ pin_button_ext' = ext
              /\ buttons_pressed' = pressed
              /\ prev_buttons_pressed' = pressed
              /\ mouse_buttons' = st.mb
              /\ hid' = st.hid
              /\ pc' = IF en = 0 THEN "loop" ELSE "read"
    /\ spinner_value' = 0
    /\ UNCHANGED <<speed_percent_default, boot_pct, timeVars>>

\* the tick with the buttons, the jack, the enable switch and the swap
\* command as inputs
LoopHead ==
    LoopHeadOver({CH_w}, Levels, Levels, {AXIS_X}, {0}, Levels, Levels, Levels, Levels)

\* the tick with the enable switch, the axis switch, the speed dial and the
\* primary button as inputs
LoopHeadEncoder ==
    LoopHeadOver({}, {0}, Levels, Levels, PotReadings, {1}, Levels, {1}, {1})

\* the tick with the serial commands as inputs
LoopHeadSerial ==
    LoopHeadOver(CommandBytes, {0}, {0}, {AXIS_X}, {0}, {1}, {1}, {1}, {1})

\* the tick with every byte value as input; '+' and '-' are offered while
\* speed_percent is fewer than MaxAdjust steps away from a predefined mode
NearPreset ==
    { p + k * PCT_ADJUST : p \in {SLOW_PCT, 100}, k \in (1 - MaxAdjust) .. (MaxAdjust - 1) }

LoopHeadBytes ==
    LoopHeadOver(IF speed_percent \in NearPreset THEN AllBytes ELSE AllBytes \ AdjustBytes,
                 {0}, {0}, {AXIS_X}, {0}, {1}, {1}, {1}, {1})

\* MoveEvent with the delta on the Y axis not negated
MoveEventNoInvert(ax, delta) ==
    IF ax = AXIS_X THEN Ev("move", -1, delta, 0) ELSE Ev("move", -1, 0, delta)

\* lines 640-645: Mouse.move(delta, 0, 0) on the X axis; on the Y axis the
\* int8_t delta is negated first, then Mouse.move(0, delta, 0)
MoveEvent(ax, delta) ==
    IF ax = AXIS_X
    THEN Ev("move", -1, delta, 0)
    ELSE Ev("move", -1, 0, ((-delta + 128) % 256) - 128)

\* MotionDue for positive values only
MotionDuePositive(value) ==
    value > 0

\* line 637: if (spinner_value)
MotionDue(value) ==
    value # 0

\* lines 635-648: read the accumulator and send the motion event
LoopRead ==
    /\ pc = "read"
    /\ spinner_value' = position
    /\ enc' = [enc EXCEPT !.late = 0, !.moves = IF MotionDue(position) /\ @ < 2 THEN @ + 1 ELSE @]
    /\ IF MotionDue(position)
       THEN LET delta == Delta(position, speed, speed_percent)
            IN  /\ hid' = Append(hid, MoveEvent(axis, delta))
                /\ consumed' = consumed + position
                /\ pc' = "reset"
       ELSE /\ pc' = "loop"
            /\ UNCHANGED <<hid, consumed>>
    /\ UNCHANGED <<configVars, prevVars, tickVars, timeVars, mouse_buttons, led, position, pulses, n_isr>>

\* line 650: spinner.write(0), then the delay of line 653
LoopReset ==
    /\ pc = "reset"
    /\ position' = 0
    /\ pc' = "loop"
    /\ UNCHANGED <<configVars, prevVars, tickVars, timeVars, mouse_buttons, led, spinner_value,
                   hid, pulses, consumed, n_isr, enc>>

\* The interrupt handler of the Encoder object (line 350): a step of the
\* encoder adds its direction to the accumulator, whatever the main program
\* is doing.
EncoderInterrupt ==
    /\ n_isr < MaxPulses
    /\ \E dir \in {-1, 1} :
          /\ position' = position + dir
          /\ pulses' = pulses + dir
    /\ n_isr' = n_isr + 1
    /\ enc' = [enc EXCEPT !.late = 1]
    /\ UNCHANGED <<pc, configVars, prevVars, tickVars, timeVars, mouse_buttons, led, spinner_value,
                   hid, consumed>>

(* The program under four sets of inputs.  Spec drives the buttons, the     *)
(* jack, the enable switch and the swap command; SpecEncoder the encoder,  *)
(* the enable and axis switches, the speed dial and the primary button;    *)
(* SpecSerial the command bytes over the whole range of speed_percent;     *)
(* SpecBytes every byte value.                                             *)

Next ==
    \/ SetupLatch
    \/ SetupWait
    \/ LoopHead
    \/ LoopRead

Spec == Init /\ [][Next]_vars

NextEncoder ==
    \/ SetupLatch
    \/ SetupWait
    \/ LoopHeadEncoder
    \/ LoopRead
    \/ LoopReset
    \/ EncoderInterrupt

SpecEncoder == Init /\ [][NextEncoder]_vars

NextSerial ==
    \/ SetupLatch
    \/ SetupWait
    \/ LoopHeadSerial
    \/ LoopRead

SpecSerial == Init /\ [][NextSerial]_vars

NextBytes ==
    \/ SetupLatch
    \/ SetupWait
    \/ LoopHeadBytes
    \/ LoopRead

SpecBytes == Init /\ [][NextBytes]_vars

\* the tick with the commands s and w, the jack, the enable switch and the
\* speed dial as inputs, and at most one pulse of the encoder between two
\* resets of the accumulator
ConfigBytes ==
    {CH_s, CH_w}

LoopHeadConfig ==
    LoopHeadOver(ConfigBytes, Levels, Levels, {AXIS_X}, PotReadings, {1}, {1}, {1}, {1})

NextConfig ==
    \/ SetupLatch
    \/ SetupWait
    \/ LoopHeadConfig
    \/ LoopRead
    \/ LoopReset
    \/ (n_isr = 0 /\ EncoderInterrupt)

SpecConfig == Init /\ [][NextConfig]_vars

\* the first tick of the main loop
LoopHeadFirst ==
    /\ prev_jack_present = UNSET
    /\ LoopHead

\* setup() with the clock and the button line, up to the end of the first tick
NextBoot ==
    \/ ButtonChange
    \/ ClockTick
    \/ BootSample
    \/ BootLatch
    \/ BootWaitStart
    \/ BootCheck
    \/ BootBody
    \/ LoopHeadFirst
    \/ LoopRead

SpecBoot == Init /\ [][NextBoot]_vars

\* the processor keeps running setup() and time keeps going by; nothing is
\* asked of the user
BootFairness ==
    /\ WF_vars(ClockTick)
    /\ WF_vars(BootSample)
    /\ WF_vars(BootLatch)
    /\ WF_vars(BootWaitStart)
    /\ WF_vars(BootCheck)
    /\ WF_vars(BootBody)

SpecBootFair == Init /\ [][NextBoot]_vars /\ BootFairness

----------------------------------------------------------------------------
(* The motion scaler on its own: the main loop stands at line 635 with     *)
(* events enabled and any accumulator value, speed dial and speed_percent. *)

\* the values speed_percent can hold: 100 and SLOW_PCT moved by steps of
\* PCT_ADJUST (the multiples of 5) and, once constrained to 1, 1 moved by such
\* steps
ReachablePercents ==
    {p \in 1 .. 255 : p % PCT_ADJUST = 0 \/ p % PCT_ADJUST = 1}

RawValues ==
    (-MaxRaw .. MaxRaw) \cup {-200, -128, -127, -100, 100, 127, 128, 200}

\* the main loop at line 635 with the axis switch in one of the positions Axes
ScaleInitOver(Axes) ==
    /\ pc = "read"
    /\ position \in RawValues
    /\ pulses = position
    /\ speed \in 1 .. MAX_SPEED
    /\ speed_percent \in ReachablePercents
    /\ speed_percent_default = 100
    /\ buttons_swapped = FALSE
    /\ button_ext_nc = FALSE
    /\ prev_jack_present = 0
    /\ prev_events_enabled = 1
    /\ axis \in Axes
    /\ prev_axis = axis
    /\ prev_speed = speed
    /\ prev_buttons_pressed = <<0, 0, 0>>
    /\ mouse_buttons = {}
    /\ led = LED_INTENSITY
    /\ jack_present = 0
    /\ events_enabled = 1
    /\ buttons_pressed = <<0, 0, 0>>
    /\ spinner_value = 0
    /\ serial_in = -1
    /\ serial_out = << >>
    /\ blinks = 0
    /\ pin_button_1 = 1
    /\ pin_button_2 = 1
    /\ pin_button_ext = 1
    /\ pin_ext_detect = 1
    /\ pin_pot = 0
    /\ hid = << >>
    /\ boot_pct = 100
    /\ old = [sp |-> speed_percent, sw |-> FALSE, jack |-> 0, events |-> 1,
              pressed |-> <<0, 0, 0>>, mb |-> {}]
    /\ run = NoRun
    /\ consumed = 0
    /\ n_isr = 0
    /\ enc = EncIdle
    /\ millis = 0
    /\ button_1 = 1
    /\ boot = BootIdle
    /\ blink = BlinkIdle
    /\ pace = PaceIdle

ScaleInit ==
    ScaleInitOver({AXIS_X})

NextScale ==
    LoopRead

SpecScale == ScaleInit /\ [][NextScale]_vars

\* the same with the axis switch in either position
AxisInit ==
    ScaleInitOver({AXIS_X, AXIS_Y})

SpecAxis == AxisInit /\ [][NextScale]_vars

\* the main loop from line 635 to the end of the tick, with the encoder
\* turning meanwhile, at the ends of the speed dial and in both predefined
\* modes
ConsumeInit ==
    /\ ScaleInit
    /\ speed \in {1, MAX_SPEED}
    /\ speed_percent \in {SLOW_PCT, 100}

NextConsume ==
    \/ LoopRead
    \/ LoopReset
    \/ EncoderInterrupt

SpecConsume == ConsumeInit /\ [][NextConsume]_vars

----------------------------------------------------------------------------
(* blink_led_ms (lines 370-382) and the pacing of loop() (line 653) on     *)
(* their own, with the clock anywhere in its 32-bit range.                 *)

\* the program between two ticks: normal speed, events enabled, no pedal,
\* nothing pressed
AtRest ==
    /\ speed_percent_default = 100
    /\ speed_percent = 100
    /\ buttons_swapped = FALSE
    /\ button_ext_nc = FALSE
    /\ prev_jack_present = 0
    /\ prev_events_enabled = 1
    /\ prev_axis = AXIS_X
    /\ prev_speed = 1
    /\ prev_buttons_pressed = <<0, 0, 0>>
    /\ mouse_buttons = {}
    /\ position = 0
    /\ led = LED_INTENSITY
    /\ jack_present = 0
    /\ events_enabled = 1
    /\ axis = AXIS_X
    /\ speed = 1
    /\ buttons_pressed = <<0, 0, 0>>
    /\ spinner_value = 0
    /\ serial_in = -1
    /\ serial_out = << >>
    /\ blinks = 0
    /\ pin_button_1 = 1
    /\ pin_button_2 = 1
    /\ pin_button_ext = 1
    /\ pin_ext_detect = 1
    /\ pin_pot = 0
    /\ hid = << >>
    /\ boot_pct = 100
    /\ old = [sp |-> 100, sw |-> FALSE, jack |-> 0, events |-> 1,
              pressed |-> <<0, 0, 0>>, mb |-> {}]
    /\ run = NoRun
    /\ pulses = 0
    /\ consumed = 0
    /\ n_isr = 0
    /\ enc = EncIdle
    /\ button_1 = 1
    /\ boot = BootIdle

restVars == <<configVars, prevVars, tickVars, encoderVars, mouse_buttons, spinner_value,
              hid, button_1, boot>>

\* values of millis() at the call: early, on both sides of 2^31 - 1 and
\* of 2^32 - 1
BlinkClocks ==
    {0, 1000,
     2147483647 - 400, 2147483647 - 300, 2147483647 - 260, 2147483647 - 250,
     2147483647 - 249, 2147483647 - 100, 2147483647,
     -2147483647 - 1, -2147483647 + 5000, -300, -240, -100, -1}

\* values of the argument ms
BlinkArgs ==
    {0, 1, 2 * LED_BLINK_MS, LED_FEEDBACK_MS, 1000}

BlinkInit ==
    /\ pc = "blink_call"
    /\ millis \in BlinkClocks
    /\ blink \in [ms : BlinkArgs, leave_on : BOOLEAN, stop_ms : {0}, now : {0}, cycles : {0}]
    /\ pace = PaceIdle
    /\ AtRest

\* line 371 and the initialisation of line 373; max(1, ms) is the larger of the two
BlinkCall ==
    /\ pc = "blink_call"
    /\ blink' = [blink EXCEPT
                   !.stop_ms = U32Add(millis, IF 1 > blink.ms THEN 1 ELSE blink.ms),
                   !.now = 0,
                   !.cycles = 0]
    /\ pc' = "blink_loop"
    /\ UNCHANGED <<restVars, led, millis, pace>>

\* lines 373-378: one on/off cycle, two delays of LED_BLINK_MS (late: the
\* milliseconds the cycle takes beyond them), then now = millis()
BlinkCycle ==
    /\ pc = "blink_loop"
    /\ blink.now < blink.stop_ms
    /\ blink.cycles < MaxCycles
    /\ \E late \in {0, 1} :
          /\ millis' = U32Add(millis, 2 * LED_BLINK_MS + late)
          /\ blink' = [blink EXCEPT !.now = millis', !.cycles = @ + 1]
    /\ led' = 0
    /\ UNCHANGED <<pc, restVars, pace>>

\* line 381, when the condition of line 373 is false
BlinkReturn ==
    /\ pc = "blink_loop"
    /\ ~(blink.now < blink.stop_ms)
    /\ led' = (IF blink.leave_on THEN 1 ELSE 0) * LED_INTENSITY
    /\ pc' = "blink_done"
    /\ UNCHANGED <<restVars, millis, blink, pace>>

NextBlink ==
    \/ BlinkCall
    \/ BlinkCycle
    \/ BlinkReturn

SpecBlink == BlinkInit /\ [][NextBlink]_vars

\* values of loop_start_ms
PaceClocks ==
    {0, 1, 1000, 60000, 2147483647 - 2, 2147483647,
     -2147483647 - 1, -2147483647 + 1000, -1000, -6, -2, -1}

\* the end of a tick that began at loop_start_ms and took up to MaxElapsed ms
PaceInit ==
    /\ pc = "delay"
    /\ pace \in [loop_start_ms : PaceClocks, end_ms : {0}, sleep_ms : {0}]
    /\ \E e \in 0 .. MaxElapsed : millis = U32Add(pace.loop_start_ms, e)
    /\ blink = BlinkIdle
    /\ AtRest

\* min(a, b) of Arduino.h on unsigned long
MinU32(a, b) ==
    IF U32Less(a, b) THEN a ELSE b

\* the argument of delay at line 653:
\* EVENT_INTERVAL_MS - min(0, millis() - loop_start_ms), in unsigned long
TickDelay(now, loop_start_ms) ==
    U32Sub(EVENT_INTERVAL_MS, MinU32(0, U32Sub(now, loop_start_ms)))

\* line 653
LoopDelay ==
    /\ pc = "delay"
    /\ pace' = [pace EXCEPT !.end_ms = millis,
                            !.sleep_ms = TickDelay(millis, pace.loop_start_ms)]
    /\ millis' = U32Add(millis, pace'.sleep_ms)
    /\ pc' = "loop"
    /\ UNCHANGED <<restVars, led, blink>>

NextPace ==
    LoopDelay

SpecPace == PaceInit /\ [][NextPace]_vars

----------------------------------------------------------------------------
(* Properties *)

\* at least one tick of the main loop has run
Ran ==
    prev_jack_present # UNSET

Abs(x) ==
    IF x < 0 THEN -x ELSE x

Min(a, b) ==
    IF a < b THEN a ELSE b

Max(a, b) ==
    IF a > b THEN a ELSE b

\* number of host calls op for button b on the current tick
Count(h, op, b) ==
    Cardinality({k \in 1 .. Len(h) : h[k].op = op /\ h[k].b = b})

\* the motion event of the current tick (the last host call of a tick that moved)
Moved ==
    pc = "reset" /\ Len(hid) > 0 /\ hid[Len(hid)].op = "move"

MoveX ==
    hid[Len(hid)].x

\* C1: while events are enabled no pulse is lost: the raw values consumed
\* by motion events plus the accumulator equal the net signed pulse count
\* (between the read of line 635 and the reset of line 650 the value read is
\* still in the accumulator, so the sum is taken outside that window).
C1_NoPulseLost ==
    (prev_events_enabled = 1 /\ pc # "reset") => consumed + position = pulses

\* C2 as stated: on every tick after the first a press is sent exactly once per false-to-true
\* transition of the logical state of a button, a release exactly once per
\* true-to-false transition, and nothing else.
C2_EdgeOnEveryTick ==
    (Ran /\ old.jack # UNSET) => \A i \in 0 .. 2 :
        /\ Count(hid, "press", i) =
             (IF old.pressed[i + 1] # 1 /\ buttons_pressed[i + 1] = 1 THEN 1 ELSE 0)
        /\ Count(hid, "release", i) =
             (IF old.pressed[i + 1] = 1 /\ buttons_pressed[i + 1] = 0 THEN 1 ELSE 0)

\* C2 amended: on a tick with events enabled, that follows a tick with events
\* enabled and on which jack presence did not change, a press is sent exactly
\* once per false-to-true transition of the logical state, a release exactly
\* once per true-to-false transition, nothing for a button whose state did not
\* change, and no release of all buttons.
C2_EdgeWhileEnabled ==
    (Ran /\ old.events = 1 /\ events_enabled = 1 /\ old.jack = jack_present) =>
        /\ \A k \in 1 .. Len(hid) : hid[k].op # "release_all"
        /\ \A i \in 0 .. 2 :
            /\ Count(hid, "press", i) =
                 (IF old.pressed[i + 1] # 1 /\ buttons_pressed[i + 1] = 1 THEN 1 ELSE 0)
            /\ Count(hid, "release", i) =
                 (IF old.pressed[i + 1] = 1 /\ buttons_pressed[i + 1] = 0 THEN 1 ELSE 0)

\* a button is held over the tick (no event for it) while another one is pressed
C2_Witness ==
    /\ Ran /\ old.events = 1 /\ events_enabled = 1 /\ old.jack = jack_present
    /\ \E i \in 0 .. 2 : /\ old.pressed[i + 1] = 1 /\ buttons_pressed[i + 1] = 1
                         /\ Count(hid, "press", i) = 0
    /\ \E j \in 0 .. 2 : Count(hid, "press", j) = 1

\* C3: on a tick where jack presence differs from the previous tick, all
\* buttons are released first: the first host call is the release of all
\* buttons, every press of the tick comes after it, and the host buttons held
\* at the end of the tick are only those pressed after it.
C3_JackChangeReleasesAll ==
    (Ran /\ old.jack # jack_present) =>
        /\ Len(hid) > 0
        /\ hid[1] = ReleaseAll
        /\ mouse_buttons = {i \in 0 .. 2 : Count(hid, "press", i) > 0}

\* the pedal is pulled with all three host buttons held
C3_Witness ==
    /\ old.jack = 1 /\ jack_present = 0
    /\ old.mb = MOUSE_ALL
    /\ mouse_buttons = {0, 1}

\* C4: on a tick where events are disabled nothing but releases of all
\* buttons goes to the host (no press, no release of one button, no motion),
\* the tick that disables them releases all buttons, and no host button is
\* held while they are disabled.
C4_NothingWhileDisabled ==
    (Ran /\ events_enabled = 0) =>
        /\ pc = "loop"
        /\ mouse_buttons = {}
        /\ \A k \in 1 .. Len(hid) : hid[k] = ReleaseAll
        /\ old.events = 1 => \E k \in 1 .. Len(hid) : hid[k] = ReleaseAll

\* events are switched off with the host button held, the primary button
\* still down and pulses waiting in the accumulator
C4_Witness ==
    /\ old.events = 1 /\ events_enabled = 0
    /\ old.mb # {}
    /\ pin_button_1 = 0
    /\ position # 0

\* C5: the logical triple is the mapping table applied to the primary
\* button A, the secondary button B and the polarity-corrected pedal Ext;
\* with buttonsSwapped toggled, left and right are exchanged and middle is
\* the same.
C5_MappingTable ==
    Ran =>
        LET A   == pin_button_1 = 0
            B   == pin_button_2 = 0
            Ext == IF button_ext_nc THEN pin_button_ext = 1 ELSE pin_button_ext = 0
            row == IF jack_present = 0
                   THEN (IF buttons_swapped THEN <<B, A, FALSE>> ELSE <<A, B, FALSE>>)
                   ELSE (IF buttons_swapped THEN <<A, Ext, B>> ELSE <<Ext, A, B>>)
            toggled == ButtonMap(jack_present, ~buttons_swapped, button_ext_nc,
                                 pin_button_1, pin_button_2, pin_button_ext)
        IN  /\ \A i \in 1 .. 3 : buttons_pressed[i] = (IF row[i] THEN 1 ELSE 0)
            /\ toggled = <<buttons_pressed[2], buttons_pressed[1], buttons_pressed[3]>>

\* pedal connected, buttons swapped, a normally-closed pedal pressed
C5_Witness ==
    /\ jack_present = 1 /\ buttons_swapped /\ button_ext_nc
    /\ pin_button_ext = 1
    /\ buttons_pressed = <<0, 1, 1>>

\* C6: for a non-zero raw value the motion delta is in -127..127, is not
\* zero, has the sign of the raw value (axis X), has magnitude at least
\* min(|raw|, 127), and is non-decreasing in |raw|: it is at most the delta of
\* |raw| + 1 and at least the delta of |raw| - 1.
C6_DeltaBounded ==
    (pc # "read" /\ spinner_value # 0) =>
        /\ Moved
        /\ LET a == Abs(spinner_value)
           IN  /\ MoveX \in -127 .. 127
               /\ MoveX # 0
               /\ (MoveX > 0) = (spinner_value > 0)
               /\ Abs(MoveX) >= Min(a, 127)
               /\ Abs(MoveX) <= Abs(Delta(a + 1, speed, speed_percent))
               /\ a > 1 => Abs(MoveX) >= Abs(Delta(a - 1, speed, speed_percent))

\* a multiplier below 1 is raised to 1, and a large raw value saturates
C6_Witness ==
    /\ Moved
    /\ \/ speed * speed_percent < 100 /\ MoveX = spinner_value /\ spinner_value = -MaxRaw
       \/ spinner_value = 200 /\ MoveX = 127

\* C7 as stated: the magnitude is min(127, |raw| * max(1, (dial * pct) div 100)),
\* the quotient truncated before the multiplication.
C7_TruncatedQuotient ==
    Moved =>
        Abs(MoveX) = Min(127, Abs(spinner_value) * Max(1, (speed * speed_percent) \div 100))

\* C7 amended: the quotient is not truncated.  The magnitude is
\* min(127, floor(|raw| * max(100, dial * pct) / 100)) or, where the single
\* precision product falls just below an integer, one less; it is never below
\* the value of the truncating formula.
C7_FloatingQuotient ==
    Moved =>
        LET a     == Abs(spinner_value)
            k     == speed * speed_percent
            exact == Min(127, (a * Max(100, k)) \div 100)
        IN  /\ Abs(MoveX) \in {exact - 1, exact}
            /\ Abs(MoveX) >= Min(127, a * Max(1, k \div 100))

\* the fraction of the quotient shows in the delta
C7_Witness ==
    /\ Moved
    /\ speed = 3 /\ speed_percent = 50 /\ spinner_value = 2
    /\ MoveX = 3

\* the commands named by the spec, in both letter cases
NamedBytes ==
    {115, 83, 110, 78, 114, 82, 99, 67, 119, 87, 43, 45}

\* C8: a byte that is not s, n, r, c, w (either case), '+' or '-' is
\* answered with '?' and changes nothing: speedPercent and buttonsSwapped
\* keep their values and no blink is made for it.
C8_UnknownByteIgnored ==
    (Ran /\ serial_in # -1 /\ serial_in \notin NamedBytes) =>
        /\ serial_out = <<Line("?", -1)>>
        /\ speed_percent = old.sp
        /\ buttons_swapped = old.sw
        /\ blinks = (IF old.jack # jack_present THEN 1 ELSE 0)

\* C9: after the command r, speedPercent is the default captured at boot
\* and buttonsSwapped is false.
C9_RestoreDefaults ==
    (Ran /\ serial_in \in {114, 82}) =>
        /\ speed_percent = boot_pct
        /\ buttons_swapped = FALSE

\* r arrives in slow-mode boot with the buttons swapped and a custom speed
C9_Witness ==
    /\ Ran /\ serial_in = 114
    /\ boot_pct = SLOW_PCT
    /\ old.sw
    /\ old.sp \notin {SLOW_PCT, 100}
    /\ speed_percent = SLOW_PCT

\* C10: speedPercent is in 1..255 once the boot sampling is done, and '+'
\* and '-' move it by PCT_ADJUST or clamp it to 255 or 1.
C10_PercentInRange ==
    /\ pc # "boot" => speed_percent \in 1 .. 255
    /\ (Ran /\ serial_in = 43) =>
          speed_percent = (IF old.sp + PCT_ADJUST <= 255 THEN old.sp + PCT_ADJUST ELSE 255)
    /\ (Ran /\ serial_in = 45) =>
          speed_percent = (IF old.sp - PCT_ADJUST >= 1 THEN old.sp - PCT_ADJUST ELSE 1)

\* '+' at 251 stops at 255
C10_Witness ==
    /\ Ran /\ serial_in = 43
    /\ old.sp = 251
    /\ speed_percent = 255

\* calls of blink_led_ms made for the command of the current tick (a change of
\* jack presence makes one more, line 533)
CommandBlinks ==
    blinks - (IF old.jack # jack_present THEN 1 ELSE 0)

\* C11 as stated: every mutating command (s, n, r, w, '+', '-', letters in
\* either case) is followed in the same tick by the LED blink, whatever
\* speedPercent was when it arrived.
C11_BlinkAfterEveryMutation ==
    (Ran /\ serial_in \in {115, 83, 110, 78, 114, 82, 119, 87, 43, 45}) =>
        CommandBlinks = 1

\* C11 amended: s, n, r and w are followed in the same tick by exactly one
\* LED blink, whatever speedPercent was; '+' and '-' are followed by the
\* blink when speedPercent was SLOW_PCT or 100 as the command arrived, and
\* by no blink when it was any other value.
C11_BlinkUnlessCustom ==
    /\ (Ran /\ serial_in \in {115, 83, 110, 78, 114, 82, 119, 87}) => CommandBlinks = 1
    /\ (Ran /\ serial_in \in {43, 45}) =>
          CommandBlinks = (IF old.sp = SLOW_PCT \/ old.sp = 100 THEN 1 ELSE 0)

\* '+' moves a custom speed_percent and no blink is made
C11_Witness ==
    /\ Ran /\ serial_in = 43
    /\ old.sp = 105 /\ speed_percent = 110
    /\ blinks = 0

\* C12: the command c changes nothing: speedPercent, the default captured
\* at boot and buttonsSwapped keep their values and no LED blink is made for
\* it; it prints the speed mode, the percent and the swap state in force.
C12_CurrentIsReadOnly ==
    (Ran /\ serial_in \in {99, 67}) =>
        /\ speed_percent = old.sp
        /\ buttons_swapped = old.sw
        /\ speed_percent_default = boot_pct
        /\ CommandBlinks = 0
        /\ Len(serial_out) = 2
        /\ serial_out[1].n = speed_percent
        /\ serial_out[1].text = (IF speed_percent = SLOW_PCT THEN "speed=slow(%)"
                                 ELSE IF speed_percent = 100 THEN "speed=normal(%)"
                                 ELSE "speed=custom(%)")
        /\ serial_out[2].text = (IF buttons_swapped THEN "buttons=swapped"
                                 ELSE "buttons=normal")

\* c arrives with a custom speed, the buttons swapped and a slow-mode boot
C12_Witness ==
    /\ Ran /\ serial_in = 99
    /\ old.sp = 35 /\ old.sw /\ boot_pct = SLOW_PCT
    /\ serial_out[1] = Line("speed=custom(%)", 35)
    /\ blinks = 0

\* C13: the percent printed by c is the value left by the commands before
\* it: c after s prints SLOW_PCT with the mode name slow; c after n and k
\* commands '+' prints min(255, 100 + k * PCT_ADJUST), which is 115 for k = 3.
C13_CurrentReportsPercent ==
    (Ran /\ serial_in \in {99, 67}) =>
        /\ (run.base = "s" /\ run.plus = 0) =>
              serial_out[1] = Line("speed=slow(%)", SLOW_PCT)
        /\ run.base = "n" =>
              serial_out[1].n = Min(255, 100 + run.plus * PCT_ADJUST)
        /\ run = [base |-> "n", plus |-> 3] =>
              serial_out[1] = Line("speed=custom(%)", 115)

\* c after n and 32 commands '+': 260 is over the range and 255 is printed
C13_Witness ==
    /\ Ran /\ serial_in = 99
    /\ run = [base |-> "n", plus |-> 32]
    /\ serial_out[1].n = 255

\* C14: once the boot sampling is done, speedPercent and the default are
\* both SLOW_PCT exactly when the primary button was pressed at the first
\* sample and again at the second one, taken SLOW_TRIGGER_MS later; in every
\* other case both are 100 (no speed command arrives under SpecBoot).
C14_SlowLatch ==
    pc \notin {"boot", "hold"} =>
        LET slow == boot.first = 0 /\ boot.second = 0
        IN  /\ speed_percent = (IF slow THEN SLOW_PCT ELSE 100)
            /\ speed_percent_default = speed_percent
            /\ (boot.first = 0 /\ pc # "start") => boot.start_ms >= SLOW_TRIGGER_MS
            /\ boot.first # 0 => boot.second = NotRead

\* a press that ended before the second sample leaves normal speed
C14_Witness ==
    /\ pc = "loop"
    /\ boot.first = 0 /\ boot.second = 1
    /\ speed_percent = 100 /\ speed_percent_default = 100

\* the host button the primary button stands for on the current tick
PrimaryTarget ==
    IF jack_present = 0
    THEN (IF buttons_swapped THEN 1 ELSE 0)
    ELSE (IF buttons_swapped THEN 0 ELSE 1)

\* the run phase has not started: nothing sent to the host or printed, no tick
NotStarted ==
    /\ ~Ran
    /\ hid = << >>
    /\ serial_out = << >>
    /\ mouse_buttons = {}

\* the boot wait ended BOOT_DELAY_MS or more after it began, on a sample
\* of the primary button that found it released
WaitedOut ==
    /\ U32Sub(boot.loop_ts, boot.start_ms) >= BOOT_DELAY_MS
    /\ boot.read = 1

C18_SetupAlwaysFinishes ==
    <>(pc \notin BootPcs)

\* C18 amended: when the primary button is released for good from some
\* moment on, setup() finishes and the main loop starts.
C18_SetupFinishesOnRelease ==
    <>[](button_1 = 1) => <>(pc \notin BootPcs)

\* the main loop starts late: the button was held well past the boot delay
C18_Witness ==
    /\ pc = "loop"
    /\ boot.read = 1
    /\ U32Sub(boot.loop_ts, boot.start_ms) >= BOOT_DELAY_MS + 2 * ClockStep

\* C16: a motion event moves the selected axis only: on the X axis it is
\* (delta, 0, 0) and delta has the sign of the raw value; on the Y axis it is
\* (0, -delta, 0), of the opposite sign; the wheel is 0 and both components
\* are in -127..127.
C16_SelectedAxisOnly ==
    Moved =>
        LET e     == hid[Len(hid)]
            delta == Delta(spinner_value, speed, speed_percent)
        IN  /\ e.w = 0
            /\ e.x \in -127 .. 127
            /\ e.y \in -127 .. 127
            /\ axis = AXIS_X => (e.x = delta /\ e.y = 0 /\ (e.x > 0) = (spinner_value > 0))
            /\ axis = AXIS_Y => (e.x = 0 /\ e.y = -delta /\ (e.y < 0) = (spinner_value > 0))
            /\ e.x # 0 \/ e.y # 0

\* on the Y axis a saturated positive delta goes out as -127
C16_Witness ==
    /\ Moved
    /\ axis = AXIS_Y /\ spinner_value = 128
    /\ hid[Len(hid)].x = 0 /\ hid[Len(hid)].y = -127

\* C19: blink_led_ms(ms) makes at most ceil(ms / (2 * LED_BLINK_MS)) + 1
\* on/off cycles before it returns, whatever the 32-bit clock reads at the
\* call and during the blink.
C19_BlinkBounded ==
    blink.cycles <= (blink.ms + 2 * LED_BLINK_MS - 1) \div (2 * LED_BLINK_MS) + 1

\* C20: the delay asked at the end of a tick is the rest of the tick
\* interval: EVENT_INTERVAL_MS minus the time the tick took when that is
\* positive, 0 when the tick took EVENT_INTERVAL_MS or longer.
C20_SleepsRemainder ==
    pc = "loop" =>
        LET elapsed == U32Sub(pace.end_ms, pace.loop_start_ms)
        IN  pace.sleep_ms = (IF elapsed < EVENT_INTERVAL_MS
                             THEN EVENT_INTERVAL_MS - elapsed
                             ELSE 0)

\* C21: the polarity flag is a latch: on a tick where jack presence changes
\* (to present in particular) it becomes the sample of the pedal line taken
\* on that tick, LOW meaning normally-closed, and no step on which jack
\* presence does not change alters it, whatever the pedal line reads.
C21_PolarityLatched ==
    /\ []((Ran /\ old.jack # jack_present) => button_ext_nc = (pin_ext_detect = 0))
    /\ [][prev_jack_present' = prev_jack_present => button_ext_nc' = button_ext_nc]_vars

\* a pedal detected as normally-closed is pressed (line HIGH) on a later
\* tick of the same connection, and the flag is still set
C21_Witness ==
    /\ Ran /\ old.jack = 1 /\ jack_present = 1
    /\ button_ext_nc
    /\ pin_button_ext = 1

\* C22: the first motion event after the events are switched on holds only
\* the pulses that arrived after the reset of that tick: until that event
\* the accumulator equals the pulses counted since the reset, and the value
\* the event is made from is that count, whatever the accumulator held while
\* the events were off.
C22_StalePulsesDropped ==
    /\ (Ran /\ events_enabled = 1 /\ enc.moves = 0 /\ pc \in {"read", "loop"}) =>
           position = pulses
    /\ (Ran /\ pc = "reset" /\ enc.moves = 1) =>
           /\ spinner_value = consumed
           /\ enc.late = 0 => spinner_value = pulses

C22_Witness ==
    /\ old.events = 0 /\ events_enabled = 1
    /\ enc.stale = 1
    /\ Moved /\ enc.moves = 1
    /\ spinner_value = -1

\* C23: a motion event consumes the whole accumulated value. At the end of
\* a tick with events enabled in which no pulse arrived after the read, the
\* accumulator is zero, whether a motion event was sent or not and also
\* when the delta was clamped; a motion event was sent in the tick if and
\* only if the value read was not zero; and the value the reset of line 650
\* discards is the whole value read, not the clamped delta.
C23_EventConsumesAll ==
    /\ (Ran /\ events_enabled = 1 /\ pc = "loop" /\ enc.late = 0) => position = 0
    /\ (Ran /\ events_enabled = 1 /\ pc \in {"reset", "loop"}) =>
           ((\E k \in 1 .. Len(hid) : hid[k].op = "move") <=> spinner_value # 0)
    /\ (Ran /\ pc = "reset" /\ enc.late = 0) => position = spinner_value

\* a tick whose delta was clamped to 127 has ended with an empty accumulator
C23_Witness ==
    /\ Ran /\ events_enabled = 1 /\ pc = "loop" /\ enc.late = 0
    /\ spinner_value = 128
    /\ \E k \in 1 .. Len(hid) : hid[k].op = "move" /\ hid[k].x = 127
    /\ Delta(spinner_value, speed, speed_percent) = 127
    /\ spinner_value * speed > 127

MainPcs ==
    {"loop", "read", "reset"}

\* C24: a tick without a serial byte leaves speed_percent and
\* buttons_swapped as they were, and so does every step of the main loop
\* that is not a tick with a byte (the read, the reset, an encoder pulse),
\* whatever the buttons, the jack, the switches and the dial do; the boot
\* default never changes once the main loop runs; and the speed used for
\* scaling is the dial reading of the tick, whatever byte was received.
C24_ConfigOnlyBySerial ==
    /\ []((Ran /\ serial_in = -1) =>
            (speed_percent = old.sp /\ buttons_swapped = old.sw))
    /\ [][(pc \in MainPcs /\ (pc # "loop" \/ n_isr' = n_isr + 1 \/ serial_in' = -1)) =>
            (speed_percent' = speed_percent /\ buttons_swapped' = buttons_swapped)]_vars
    /\ [](pc \in MainPcs => speed_percent_default = boot_pct)
    /\ [][(pc \in MainPcs) => (speed_percent_default' = speed_percent_default)]_vars
    /\ [](Ran => speed = MapPot(pin_pot))

\* a tick without a byte on which the jack and the enable switch differ from
\* the tick before, with the dial at its upper end and a pulse counted, in
\* slow mode with the buttons swapped
C24_Witness ==
    /\ Ran /\ serial_in = -1
    /\ old.jack = 0 /\ jack_present = 1
    /\ old.events = 0 /\ events_enabled = 1
    /\ speed = MAX_SPEED
    /\ n_isr > 0
    /\ speed_percent = SLOW_PCT /\ speed_percent_default = 100
    /\ buttons_swapped

\* the bytes of the commands that change a setting
MutatingBytes ==
    {115, 83, 110, 78, 114, 82, 119, 87, 43, 45, 11, 13}

\* C25 as stated: a tick in which no mutating serial command is processed
\* never runs the blocking LED blink, whatever the jack, the switch and the
\* buttons do.
C25_BlinkOnlyAfterMutation ==
    (Ran /\ serial_in \notin MutatingBytes) => blinks = 0

\* C25 amended: a tick in which no mutating serial command is processed and
\* jack presence is the same as on the tick before never runs the blocking
\* LED blink; a tick on which jack presence changed, the first tick of the
\* main loop included, runs it once for that change.
C25_BlinkOnlyAfterMutationOrJackChange ==
    /\ (Ran /\ serial_in \notin MutatingBytes /\ old.jack = jack_present) => blinks = 0
    /\ (Ran /\ serial_in \notin MutatingBytes /\ old.jack # jack_present) => blinks = 1
    /\ Ran => CommandBlinks \in {0, 1}

\* the pedal is plugged in on a tick without a command and the LED blinks
C25_Witness ==
    /\ Ran /\ serial_in = -1
    /\ old.jack = 0 /\ jack_present = 1
    /\ old.pressed = buttons_pressed
    /\ blinks = 1

\* C26: at the end of every tick on which events are enabled the buttons the
\* host holds pressed are exactly the buttons whose logical state of that
\* tick is pressed, whatever the buttons, the jack, the pedal, the swap
\* command and the enable switch did before; the release of all buttons on
\* a jack change leaves no button stuck pressed or stuck released.
C26_HostMatchesLogical ==
    (Ran /\ events_enabled = 1) =>
        mouse_buttons = {i \in 0 .. 2 : buttons_pressed[i + 1] # 0}

\* a logical button held over a tick on which jack presence changed: the host
\* released it with all the others and it was pressed again in the same tick
C26_Witness ==
    /\ Ran /\ old.events = 1 /\ events_enabled = 1
    /\ old.jack # UNSET /\ old.jack # jack_present
    /\ \E i \in 0 .. 2 :
          /\ old.pressed[i + 1] = 1 /\ i \in old.mb
          /\ buttons_pressed[i + 1] = 1 /\ i \in mouse_buttons
          /\ hid[1] = ReleaseAll
          /\ Count(hid, "press", i) = 1
    /\ \E j \in 0 .. 2 : j \in old.mb /\ j \notin mouse_buttons

\* the logical button the pedal maps to (index into buttons_pressed): left,
\* or right when the buttons are swapped
PedalTarget ==
    IF buttons_swapped THEN 2 ELSE 1

\* C27: on the tick where the jack becomes present, if the pedal line has
\* the same level at the polarity sample and at the button read, the pedal
\* reads as not pressed, for a normally-open pedal (line high) and for a
\* normally-closed one (line low): the logical button the pedal maps to is
\* not pressed and no press of it is sent to the host on that tick.
C27_PedalAtRestNoPress ==
    (Ran /\ old.jack # 1 /\ jack_present = 1 /\ pin_ext_detect = pin_button_ext) =>
        /\ ButtonExt(button_ext_nc, pin_button_ext) = 0
        /\ buttons_pressed[PedalTarget] = 0
        /\ PedalTarget - 1 \notin mouse_buttons
        /\ Count(hid, "press", PedalTarget - 1) = 0

\* a normally-closed pedal at rest is plugged in with events enabled and the
\* buttons swapped, while the primary button is held
C27_Witness ==
    /\ Ran /\ old.jack = 0 /\ jack_present = 1
    /\ events_enabled = 1
    /\ pin_ext_detect = 0 /\ pin_button_ext = 0
    /\ button_ext_nc
    /\ buttons_swapped
    /\ buttons_pressed = <<1, 0, 0>>
    /\ Count(hid, "press", 0) = 1

\* C28: at the end of every tick of the main loop the LED level is
\* events_enabled * LED_INTENSITY for the events_enabled sampled on that
\* tick: lit when enabled, off when disabled, also after a tick that blinked
\* for a serial command or a jack change and after a tick on which
\* events_enabled changed.
C28_LedFollowsEnable ==
    Ran => led = events_enabled * LED_INTENSITY

\* a tick that blinked for the swap command and for a jack change while the
\* events stayed enabled: the LED is lit again at the end
C28_Witness ==
    /\ Ran /\ old.events = 1 /\ events_enabled = 1
    /\ old.jack = 1 /\ jack_present = 0
    /\ serial_in = CH_w
    /\ blinks = 2
    /\ led = LED_INTENSITY

====
